---- MODULE Spec2Model ----
(***************************************************************************)
(* shellfs: a read-only FUSE file system whose tree is the output of a     *)
(* "list" shell command and whose file contents are the output of a        *)
(* "transform" shell command (src/main.rs).                                *)
(*                                                                         *)
(* Byte strings (command output, path names) are sequences of one-byte     *)
(* strings.  A Path is modelled by the sequence of its components, which   *)
(* is what Path's ==, parent() and file_name() observe.                    *)
(***************************************************************************)
EXTENDS Integers, Sequences, FiniteSets, TLC

VARIABLES
    listing,    \* the lines the list command prints at present (environment)
    pc,         \* "mounted": waiting for a request, "replied", "crashed"
    req,        \* the request served last
    table,      \* the table bound to the handler's local `items`
    reply,      \* the reply handed to the transport
    listRuns,   \* the list command invocations of the request, in order
    transRuns   \* the transform command invocations of the request, in order

vars == <<listing, pc, req, table, reply, listRuns, transRuns>>

----------------------------------------------------------------------------
(* Bounds of the model *)

MaxLines == 2       \* lines printed by the list command
MaxIno == 6         \* largest inode id a request names
MaxOffset == 3      \* largest offset a request names
MaxSize == 2        \* largest size a read request names
MaxDataLen == 2     \* longest transform output

(* Program constants *)

ENOENT == 2
TTL == 0

----------------------------------------------------------------------------
(* Bytes and paths *)

NL == "\n"
SEP == "/"

RootDir == <<"/">>
CurDir == <<".">>
ParentDir == <<".", ".">>

\* stdout.split(|c| *c == b'\n'): the segments between newline bytes
RECURSIVE split(_, _)
split(bytes, cur) ==
    IF bytes = <<>> THEN <<cur>>
    ELSE IF Head(bytes) = NL THEN <<cur>> \o split(Tail(bytes), <<>>)
    ELSE split(Tail(bytes), Append(cur, Head(bytes)))

\* the raw segments of a path between '/' bytes
RECURSIVE segments(_, _)
segments(bytes, cur) ==
    IF bytes = <<>> THEN <<cur>>
    ELSE IF Head(bytes) = SEP THEN <<cur>> \o segments(Tail(bytes), <<>>)
    ELSE segments(Tail(bytes), Append(cur, Head(bytes)))

\* Path::components of the body of a path: empty segments are dropped, "."
\* is kept only as the first component of a path with no root
RECURSIVE body(_, _)
body(segs, first) ==
    IF segs = <<>> THEN <<>>
    ELSE IF Head(segs) = <<>> THEN body(Tail(segs), first)
    ELSE IF Head(segs) = CurDir
         THEN (IF first THEN <<CurDir>> ELSE <<>>) \o body(Tail(segs), FALSE)
    ELSE <<Head(segs)>> \o body(Tail(segs), FALSE)

\* Path::new(s), seen through its components
PathNew(bytes) ==
    IF bytes = <<>> THEN <<>>
    ELSE IF Head(bytes) = SEP THEN <<RootDir>> \o body(segments(bytes, <<>>), FALSE)
    ELSE body(segments(bytes, <<>>), TRUE)

\* Path::parent: None ({}) for the empty path and for a path ending in the
\* root, else the path without its last component
parent(path) ==
    IF path = <<>> \/ path[Len(path)] = RootDir THEN {}
    ELSE {SubSeq(path, 1, Len(path) - 1)}

\* Path::file_name: the last component when it is a normal one, else None ({})
file_name(path) ==
    IF path = <<>> \/ path[Len(path)] \in {RootDir, CurDir, ParentDir} THEN {}
    ELSE {path[Len(path)]}

----------------------------------------------------------------------------
(* The inode table *)

Inode(path, kind, parent_inode) ==
    [path |-> path, kind |-> kind, parent_inode |-> parent_inode]

\* inode_map.iter().enumerate().find(|(_, e)| e.path == parent): the 0-based
\* index of the first entry with that path, as a set of at most one element
find(inode_map, p) ==
    LET hits == {i \in 0..(Len(inode_map) - 1) : inode_map[i + 1].path = p}
    IN  IF hits = {} THEN {} ELSE {CHOOSE i \in hits : \A j \in hits : i <= j}

\* insert_path with the index of the parent found taken as its id (the
\* "+ 1" of line 45 forgotten)
RECURSIVE insert_path_index_as_id(_, _, _)
insert_path_index_as_id(inode_map, path, kind) ==
    LET par == parent(path)
        r == IF par = {} THEN [map |-> inode_map, id |-> 1]
             ELSE LET p == CHOOSE q \in par : TRUE
                      hit == find(inode_map, p)
                  IN  IF hit # {}
                      THEN [map |-> inode_map, id |-> CHOOSE i \in hit : TRUE]
                      ELSE insert_path_index_as_id(inode_map, p, "Directory")
    IN  IF path # <<RootDir>> /\ path # <<CurDir>>
        THEN [map |-> Append(r.map, Inode(path, kind, r.id)),
              id |-> Len(r.map) + 1]
        ELSE [map |-> r.map, id |-> 1]

\* insert_path that looks for the parent among the entries pushed by
\* earlier calls only when the parent is the root: every other parent is
\* synthesized again
RECURSIVE insert_path_no_reuse(_, _, _)
insert_path_no_reuse(inode_map, path, kind) ==
    LET par == parent(path)
        r == IF par = {} THEN [map |-> inode_map, id |-> 1]
             ELSE LET p == CHOOSE q \in par : TRUE
                  IN  IF p = <<>>
                      THEN [map |-> inode_map, id |-> 1]
                      ELSE insert_path_no_reuse(inode_map, p, "Directory")
    IN  IF path # <<RootDir>> /\ path # <<CurDir>>
        THEN [map |-> Append(r.map, Inode(path, kind, r.id)),
              id |-> Len(r.map) + 1]
        ELSE [map |-> r.map, id |-> 1]

\* insert_path that returns the id of the parent it found or made instead
\* of the new length of the table
RECURSIVE insert_path_returns_parent(_, _, _)
insert_path_returns_parent(inode_map, path, kind) ==
    LET par == parent(path)
        r == IF par = {} THEN [map |-> inode_map, id |-> 1]
             ELSE LET p == CHOOSE q \in par : TRUE
                      hit == find(inode_map, p)
                  IN  IF hit # {}
                      THEN [map |-> inode_map, id |-> (CHOOSE i \in hit : TRUE) + 1]
                      ELSE insert_path_returns_parent(inode_map, p, "Directory")
    IN  IF path # <<RootDir>> /\ path # <<CurDir>>
        THEN [map |-> Append(r.map, Inode(path, kind, r.id)),
              id |-> r.id]
        ELSE [map |-> r.map, id |-> 1]

RECURSIVE insert_path(_, _, _)
insert_path(inode_map, path, kind) ==
    LET par == parent(path)
        r == IF par = {} THEN [map |-> inode_map, id |-> 1]
             ELSE LET p == CHOOSE q \in par : TRUE
                      hit == find(inode_map, p)
                  IN  IF hit # {}
                      THEN [map |-> inode_map, id |-> (CHOOSE i \in hit : TRUE) + 1]
                      ELSE insert_path(inode_map, p, "Directory")
    IN  IF path # <<RootDir>> /\ path # <<CurDir>>
        THEN [map |-> Append(r.map, Inode(path, kind, r.id)),
              id |-> Len(r.map) + 1]
        ELSE [map |-> r.map, id |-> 1]

\* the loop of items(): one insert_path per path, in order
RECURSIVE insert_all(_, _)
insert_all(inode_map, paths) ==
    IF paths = <<>> THEN inode_map
    ELSE insert_all(insert_path(inode_map, Head(paths), "RegularFile").map,
                    Tail(paths))

\* items(), from the list command's stdout
items(stdout) ==
    LET os_strs == SelectSeq(split(stdout, <<>>), LAMBDA s : s # <<>>)
        paths == [i \in 1..Len(os_strs) |-> PathNew(os_strs[i])]
    IN  insert_all(<<Inode(<<>>, "Directory", 0)>>, paths)

----------------------------------------------------------------------------
(* The environment: the two shell commands *)

\* the lines the list command may print: relative paths, an absolute path,
\* a path under ".", a parent-directory path and a blank line
Lines ==
    { <<>>,
      <<"a">>,
      <<"b">>,
      <<".", "/", "a">>,
      <<"a", "/", "b">>,
      <<"a", "/", "b", "/", "c">>,
      <<"a", "/", "x">>,
      <<"a", "/", "y">>,
      <<".", ".">>,
      <<"/", "a">> }

Listings == UNION {[1..n -> Lines] : n \in 0..MaxLines}

\* the bytes the list command writes: its lines, newline separated
RECURSIVE ListStdout(_)
ListStdout(ls) ==
    IF ls = <<>> THEN <<>>
    ELSE IF Len(ls) = 1 THEN ls[1]
    ELSE ls[1] \o <<NL>> \o ListStdout(Tail(ls))

\* Command::output(): the command cannot be spawned (Err), or runs and exits
\* with status 0 or with a non-zero status
CmdRuns == {"exit0", "exit1", "spawn_error"}

\* the bytes the transform command may write
Datas == {[i \in 1..n |-> i] : n \in 0..MaxDataLen}

\* what the listing may have become when a handler runs the list command a
\* second time: unchanged, or its first or its last line has disappeared
Changed(ls) ==
    {ls}
    \cup (IF ls = <<>> THEN {} ELSE {Tail(ls), SubSeq(ls, 1, Len(ls) - 1)})

Inos == 0..MaxIno
Names == {<<"a">>, <<"b">>, <<"c">>, <<"x">>}

ListRun(status, ls) == [status |-> status, lines |-> ls]

----------------------------------------------------------------------------
(* Requests and replies *)

NoReq == [op |-> "none"]
NoReply == [type |-> "none"]

attr(ino, kind) ==
    [ino |-> ino, size |-> "1_000_000_000_000", blocks |-> 1, kind |-> kind,
     perm |-> "0o644", nlink |-> 1, uid |-> 0, gid |-> 0, rdev |-> 0, flags |-> 0]

ReplyEntry(ttl, a, generation) ==
    [type |-> "entry", ttl |-> ttl, attr |-> a, generation |-> generation]
ReplyAttr(ttl, a) == [type |-> "attr", ttl |-> ttl, attr |-> a]
ReplyData(bytes) == [type |-> "data", data |-> bytes]
ReplyDirectory(entries) == [type |-> "directory", entries |-> entries]
ReplyError(errno) == [type |-> "error", errno |-> errno]

\* the handler returns, the reply is with the transport
Replied(r, t, rep, lruns, truns) ==
    /\ pc' = "replied"
    /\ req' = r
    /\ table' = t
    /\ reply' = rep
    /\ listRuns' = lruns
    /\ transRuns' = truns

\* the handler panics: no reply is built and the process is gone
Panic(r, t, lruns, truns) ==
    /\ pc' = "crashed"
    /\ req' = r
    /\ table' = t
    /\ reply' = NoReply
    /\ listRuns' = lruns
    /\ transRuns' = truns

Init ==
    /\ listing \in Listings
    /\ pc = "mounted"
    /\ req = NoReq
    /\ table = <<>>
    /\ reply = NoReply
    /\ listRuns = <<>>
    /\ transRuns = <<>>

----------------------------------------------------------------------------
(* lookup *)

\* the scan of lookup from 0-based index idx on: the reply, or "panic" when
\* an entry of the named parent has no file name
RECURSIVE lookup_scan(_, _, _, _)
lookup_scan(t, idx, parent_ino, name) ==
    IF idx >= Len(t) THEN ReplyError(ENOENT)
    ELSE LET e == t[idx + 1] IN
         IF parent_ino = e.parent_inode
         THEN IF file_name(e.path) = {} THEN [type |-> "panic"]
              ELSE IF {name} = file_name(e.path)
                   THEN ReplyEntry(TTL, attr(idx + 1, e.kind), 0)
                   ELSE lookup_scan(t, idx + 1, parent_ino, name)
         ELSE lookup_scan(t, idx + 1, parent_ino, name)

lookup ==
    /\ pc = "mounted"
    /\ LET t == items(ListStdout(listing)) IN
       \E parent_ino \in Inos, name \in Names, run \in CmdRuns :
          LET r == [op |-> "lookup", parent |-> parent_ino, name |-> name]
              lruns == <<ListRun(run, listing)>>
          IN  IF run = "spawn_error" THEN Panic(r, <<>>, lruns, <<>>)
              ELSE LET rep == lookup_scan(t, 0, parent_ino, name) IN
                   IF rep.type = "panic" THEN Panic(r, t, lruns, <<>>)
                   ELSE Replied(r, t, rep, lruns, <<>>)
    /\ UNCHANGED listing

----------------------------------------------------------------------------
(* getattr *)

\* the inode id taken as the index (the "- 1" forgotten)
index_of_id(ino) == ino

\* ino as usize - 1: the 0-based index of inode id ino
index_of(ino) == ino - 1

\* items[ino as usize - 1] is in bounds: the subtraction does not underflow
\* and the index is below the length (else the handler panics)
in_bounds(t, ino) == index_of(ino) >= 0 /\ index_of(ino) < Len(t)

getattr ==
    /\ pc = "mounted"
    /\ LET t1 == items(ListStdout(listing)) IN
       \E ino \in Inos, run1 \in CmdRuns :
          LET r == [op |-> "getattr", ino |-> ino]
              l1 == <<ListRun(run1, listing)>>
          IN  IF run1 = "spawn_error"
              THEN Panic(r, <<>>, l1, <<>>) /\ UNCHANGED listing
              ELSE IF ino <= Len(t1)
              THEN \E now \in Changed(listing), run2 \in CmdRuns :
                      LET l2 == Append(l1, ListRun(run2, now))
                          t2 == items(ListStdout(now))
                      IN  /\ listing' = now
                          /\ IF run2 = "spawn_error" \/ ~in_bounds(t2, ino)
                             THEN Panic(r, t1, l2, <<>>)
                             ELSE Replied(r, t1,
                                          ReplyAttr(TTL, attr(ino, t2[index_of(ino) + 1].kind)),
                                          l2, <<>>)
              ELSE Replied(r, t1, ReplyError(ENOENT), l1, <<>>) /\ UNCHANGED listing

----------------------------------------------------------------------------
(* read *)

Min(a, b) == IF a <= b THEN a ELSE b
Max(a, b) == IF a >= b THEN a ELSE b

\* (i64 values stay far from the ends of their range: the kernel sends
\* offsets with 0 <= offset and offset + size <= i64::MAX)
read_from(len, offset) == Max(Min(len - 1, offset), 0)
\* the upper bound taken from the size alone (the offset forgotten)
read_to_size_only(len, offset, size) == Max(Min(len, size), 0)

read_to(len, offset, size) == Max(Min(len, offset + size), 0)

\* &data[from..to] is a valid range (else the handler panics)
slice_ok(data, from, to) == from <= to /\ to <= Len(data)
slice(data, from, to) == SubSeq(data, from + 1, to)

TransRun(status, path, bytes) ==
    [status |-> status, input |-> path, stdout |-> bytes]

read ==
    /\ pc = "mounted"
    /\ LET t == items(ListStdout(listing)) IN
       \E ino \in Inos, offset \in (-1)..MaxOffset, size \in 0..MaxSize,
          run \in CmdRuns :
          LET r == [op |-> "read", ino |-> ino, offset |-> offset, size |-> size]
              lruns == <<ListRun(run, listing)>>
          IN  IF run = "spawn_error" THEN Panic(r, <<>>, lruns, <<>>)
              ELSE IF ino > Len(t) THEN Replied(r, t, ReplyError(ENOENT), lruns, <<>>)
              ELSE IF ~in_bounds(t, ino) THEN Panic(r, t, lruns, <<>>)
              ELSE \E trun \in CmdRuns, data \in Datas :
                      LET out == IF trun = "spawn_error" THEN <<>> ELSE data
                          truns == <<TransRun(trun, t[index_of(ino) + 1].path, out)>>
                          from == read_from(Len(data), offset)
                          to == read_to(Len(data), offset, size)
                      IN  IF trun = "spawn_error" \/ ~slice_ok(data, from, to)
                          THEN Panic(r, t, lruns, truns)
                          ELSE Replied(r, t, ReplyData(slice(data, from, to)),
                                       lruns, truns)
    /\ UNCHANGED listing

----------------------------------------------------------------------------
(* readdir *)

DirEntry(ino, kind, name) == [ino |-> ino, kind |-> kind, name |-> name]

\* children with every entry reported under its 0-based index (the "+ 1"
\* of line 197 forgotten)
RECURSIVE children_index_as_id(_, _, _)
children_index_as_id(t, idx, ino) ==
    IF idx >= Len(t) THEN <<>>
    ELSE LET inode == t[idx + 1] IN
         (IF inode.parent_inode = ino /\ file_name(inode.path) # {}
          THEN <<DirEntry(idx, inode.kind,
                          CHOOSE n \in file_name(inode.path) : TRUE)>>
          ELSE <<>>)
         \o children_index_as_id(t, idx + 1, ino)

\* the entries pushed for the table entries from 0-based index idx on
RECURSIVE children(_, _, _)
children(t, idx, ino) ==
    IF idx >= Len(t) THEN <<>>
    ELSE LET inode == t[idx + 1] IN
         (IF inode.parent_inode = ino /\ file_name(inode.path) # {}
          THEN <<DirEntry(idx + 1, inode.kind,
                          CHOOSE n \in file_name(inode.path) : TRUE)>>
          ELSE <<>>)
         \o children(t, idx + 1, ino)

dir_entries(t, ino) ==
    <<DirEntry(ino, "Directory", CurDir), DirEntry(ino, "Directory", ParentDir)>>
    \o children(t, 0, ino)

\* emitted with the entry at position offset skipped too (the cursor taken
\* as the position of the last entry read, not of the next)
emitted_skip_cursor(entries, offset) ==
    LET n == Len(entries)
        first == Min(offset + 1, n)
    IN  [k \in 1..(n - first) |->
            [ino |-> entries[first + k].ino,
             offset |-> ((first + k) - 1) + 1,
             kind |-> entries[first + k].kind,
             name |-> entries[first + k].name]]

\* one reply.add(ino, i + 1, kind, name) per entry at 0-based position
\* i >= offset
emitted(entries, offset) ==
    LET n == Len(entries)
        first == Min(offset, n)
    IN  [k \in 1..(n - first) |->
            [ino |-> entries[first + k].ino,
             offset |-> ((first + k) - 1) + 1,
             kind |-> entries[first + k].kind,
             name |-> entries[first + k].name]]

readdir ==
    /\ pc = "mounted"
    /\ LET t == items(ListStdout(listing)) IN
       \E ino \in Inos, offset \in 0..MaxOffset, run \in CmdRuns :
          LET r == [op |-> "readdir", ino |-> ino, offset |-> offset]
              lruns == <<ListRun(run, listing)>>
          IN  IF run = "spawn_error" THEN Panic(r, <<>>, lruns, <<>>)
              ELSE IF ino > Len(t) THEN Replied(r, t, ReplyError(ENOENT), lruns, <<>>)
              ELSE Replied(r, t, ReplyDirectory(emitted(dir_entries(t, ino), offset)),
                           lruns, <<>>)
    /\ UNCHANGED listing

----------------------------------------------------------------------------
(* The session loop and the environment *)

\* fuse::mount's loop takes the next request: the handler's table and the
\* reply of the last request are gone
SessionLoop ==
    /\ pc = "replied"
    /\ pc' = "mounted"
    /\ req' = NoReq
    /\ table' = <<>>
    /\ reply' = NoReply
    /\ listRuns' = <<>>
    /\ transRuns' = <<>>
    /\ UNCHANGED listing

\* the output of the list command changes between two requests
ListingChanges ==
    /\ pc = "mounted"
    /\ listing' \in Listings \ {listing}
    /\ UNCHANGED <<pc, req, table, reply, listRuns, transRuns>>

Next ==
    \/ lookup
    \/ getattr
    \/ read
    \/ readdir
    \/ SessionLoop
    \/ ListingChanges

Spec == Init /\ [][Next]_vars

\* the requests that are answered from the table alone
NextTree ==
    \/ lookup
    \/ getattr
    \/ readdir
    \/ SessionLoop
    \/ ListingChanges

TreeSpec == Init /\ [][NextTree]_vars

\* read requests, on the tables of the listings of at most one line (read
\* takes from the table only its length and the path of the entry read)
InitRead == Init /\ Len(listing) <= 1

NextRead ==
    \/ read
    \/ SessionLoop

ReadSpec == InitRead /\ [][NextRead]_vars

----------------------------------------------------------------------------
(* Vocabulary of the properties *)

\* a table was built for the request (the list command could be spawned)
Built == table # <<>>

\* the lines the table of the request was built from
Listed == listRuns[1].lines

\* every command the request ran could be spawned
Spawned ==
    /\ \A i \in 1..Len(listRuns) : listRuns[i].status # "spawn_error"
    /\ \A i \in 1..Len(transRuns) : transRuns[i].status # "spawn_error"

\* a relative path made of plain segments: no empty, "." or ".." segment
Plain(line) ==
    \A i \in 1..Len(segments(line, <<>>)) :
        segments(line, <<>>)[i] \notin {<<>>, CurDir, ParentDir}

Prefix(seq, k) == SubSeq(seq, 1, k)

\* the ids of the entries holding a path, and the first of them
IdsOf(t, path) == {i \in 1..Len(t) : t[i].path = path}
FirstId(t, path) == CHOOSE i \in IdsOf(t, path) : \A j \in IdsOf(t, path) : i <= j

\* the id where successive lookup calls end, one per segment, from id cur
\* (0 when a lookup does not reply with an entry)
RECURSIVE Resolve(_, _, _)
Resolve(t, cur, segs) ==
    IF segs = <<>> THEN cur
    ELSE LET rep == lookup_scan(t, 0, cur, Head(segs)) IN
         IF rep.type = "entry" THEN Resolve(t, rep.attr.ino, Tail(segs)) ELSE 0

LineABC == <<"a", "/", "b", "/", "c">>
LineAX == <<"a", "/", "x">>
LineAY == <<"a", "/", "y">>

----------------------------------------------------------------------------
(* C1: ancestor synthesis *)

\* C1: when every listed line is a relative path of plain segments, the
\* table holds, for every listed path and every non-empty prefix of it, an
\* entry with that path whose parent_inode is the id of the first entry
\* holding the next shorter prefix (1 for a single segment), and successive
\* lookups from id 1, one per segment, end at an entry holding the listed
\* path.  For the listing ["a/b/c"] the table is the root, a (Directory,
\* parent 1), a/b (Directory, parent 2), a/b/c (RegularFile, parent 3), and
\* lookup(1, "a") replies id 2.
C1_AncestorSynthesis ==
    (Built /\ \A i \in 1..Len(Listed) : Plain(Listed[i])) =>
        /\ \A i \in 1..Len(Listed) :
              LET segs == segments(Listed[i], <<>>) IN
              /\ \A k \in 1..Len(segs) :
                    \E id \in 2..Len(table) :
                        /\ table[id].path = Prefix(segs, k)
                        /\ table[id].parent_inode =
                              IF k = 1 THEN 1 ELSE FirstId(table, Prefix(segs, k - 1))
              /\ Resolve(table, 1, segs) \in 2..Len(table)
              /\ table[Resolve(table, 1, segs)].path = segs
        /\ Listed = <<LineABC>> =>
              /\ table = << Inode(<<>>, "Directory", 0),
                            Inode(<<<<"a">>>>, "Directory", 1),
                            Inode(<<<<"a">>, <<"b">>>>, "Directory", 2),
                            Inode(<<<<"a">>, <<"b">>, <<"c">>>>, "RegularFile", 3) >>
              /\ (req.op = "lookup" /\ req.parent = 1 /\ req.name = <<"a">>) =>
                    /\ pc = "replied"
                    /\ reply.type = "entry"
                    /\ reply.attr.ino = 2

\* the listing is ["a/b/c"] and lookup(1, "a") has replied with a's entry
C1_Witness ==
    /\ pc = "replied"
    /\ req.op = "lookup"
    /\ Listed = <<LineABC>>
    /\ req.parent = 1
    /\ req.name = <<"a">>
    /\ reply.type = "entry"
    /\ Len(table) = 4

----------------------------------------------------------------------------
(* C2: directory reuse *)

\* C2: a table never holds two Directory entries with the same path, and an
\* entry inserted after a Directory entry holding its parent path has that
\* entry's id as parent_inode.  For the listing ["a/x", "a/y"] there is one
\* entry for a and readdir(id of a, 0) yields ".", "..", x, y.
C2_DirectoryReuse ==
    Built =>
        /\ \A i, j \in 1..Len(table) :
              (i < j /\ table[i].kind = "Directory" /\ table[j].kind = "Directory")
                  => table[i].path # table[j].path
        /\ \A d, j \in 2..Len(table) :
              (d < j /\ table[d].kind = "Directory"
                     /\ parent(table[j].path) = {table[d].path})
                  => table[j].parent_inode = d
        /\ Listed = <<LineAX, LineAY>> =>
              /\ Cardinality(IdsOf(table, <<<<"a">>>>)) = 1
              /\ (pc = "replied" /\ req.op = "readdir"
                    /\ req.ino = FirstId(table, <<<<"a">>>>) /\ req.offset = 0) =>
                    /\ reply.type = "directory"
                    /\ [k \in 1..Len(reply.entries) |-> reply.entries[k].name]
                          = <<CurDir, ParentDir, <<"x">>, <<"y">>>>

\* the listing is ["a/x", "a/y"] and readdir(id of a, 0) has replied
C2_Witness ==
    /\ pc = "replied"
    /\ req.op = "readdir"
    /\ Listed = <<LineAX, LineAY>>
    /\ req.ino = 2
    /\ req.offset = 0
    /\ reply.type = "directory"
    /\ Len(reply.entries) = 4

----------------------------------------------------------------------------
(* C3, C4: the byte range of read *)

\* the request named an id of the table built for it
ValidIno == Built /\ req.ino \in 1..Len(table)

\* a read of a valid id whose commands could be spawned
ReadOfValid == req.op = "read" /\ Spawned /\ ValidIno

\* the bytes data[lo .. hi), 0-based
Range(data, lo, hi) == [k \in 1..(hi - lo) |-> data[lo + k]]

\* C3: a read of a valid id at an offset at or past the end of the
\* transform output replies with no bytes, whatever the size.
C3_ReadPastEndEmpty ==
    (ReadOfValid /\ req.offset >= Len(transRuns[1].stdout)) =>
        /\ pc = "replied"
        /\ reply = ReplyData(<<>>)

\* C4: a read of a valid id never fails in slicing, and at an offset inside
\* the transform output data it replies with exactly
\* data[offset .. min(offset + size, len)).
C4_ReadRange ==
    ReadOfValid =>
        LET data == transRuns[1].stdout
            len == Len(data)
        IN  /\ pc = "replied"
            /\ reply.type = "data"
            /\ (0 <= req.offset /\ req.offset < len) =>
                  reply.data = Range(data, req.offset, Min(req.offset + req.size, len))

\* a read that starts inside the output and asks for more than is left has
\* replied with the bytes up to the end
C4_Witness ==
    /\ pc = "replied"
    /\ ReadOfValid
    /\ transRuns[1].stdout = <<1, 2>>
    /\ req.offset = 1
    /\ req.size = 2
    /\ reply = ReplyData(<<2>>)

----------------------------------------------------------------------------
(* C5, C6: readdir *)

\* the elements of a finite set of integers in ascending order
RECURSIVE Ascending(_)
Ascending(S) ==
    IF S = {} THEN <<>>
    ELSE LET m == CHOOSE x \in S : \A y \in S : x <= y
         IN  <<m>> \o Ascending(S \ {m})

ChildIds(t, ino) == {j \in 1..Len(t) : t[j].parent_inode = ino}
NamedChildIds(t, ino) == {j \in ChildIds(t, ino) : file_name(t[j].path) # {}}

\* a readdir of a valid id from offset 0 that has replied
ReaddirFromStart ==
    /\ pc = "replied"
    /\ req.op = "readdir"
    /\ ValidIno
    /\ req.offset = 0

\* the reply starts with "." and "..", both with the id asked for
DotEntries ==
    /\ reply.type = "directory"
    /\ Len(reply.entries) >= 2
    /\ reply.entries[1] = [ino |-> req.ino, offset |-> 1, kind |-> "Directory",
                           name |-> CurDir]
    /\ reply.entries[2] = [ino |-> req.ino, offset |-> 2, kind |-> "Directory",
                           name |-> ParentDir]

\* after "." and "..", the reply holds exactly the entries with the given
\* ids, ascending, each with its id, kind and final path segment
ListsExactly(ids) ==
    LET asc == Ascending(ids) IN
    /\ Len(reply.entries) = 2 + Len(asc)
    /\ \A k \in 1..Len(asc) :
          /\ reply.entries[2 + k].ino = asc[k]
          /\ reply.entries[2 + k].kind = table[asc[k]].kind
          /\ {reply.entries[2 + k].name} = file_name(table[asc[k]].path)

\* C5 as stated: readdir(id, 0) emits "." and ".." and then exactly the
\* entries whose parent_inode is id, none omitted.
C5_ReaddirAllChildren ==
    ReaddirFromStart => (DotEntries /\ ListsExactly(ChildIds(table, req.ino)))

\* C5, amended: readdir(id, 0) emits "." and "..", both with inode id id and
\* kind Directory, and then exactly the entries whose parent_inode is id and
\* whose path has a final segment, in ascending id order, each with its id,
\* kind and final path segment.
C5_ReaddirNamedChildren ==
    ReaddirFromStart => (DotEntries /\ ListsExactly(NamedChildIds(table, req.ino)))

\* readdir(1, 0) has listed two children of the root
C5_Witness ==
    /\ ReaddirFromStart
    /\ req.ino = 1
    /\ Listed = <<<<"a">>, <<"b">>>>
    /\ NamedChildIds(table, 1) = {2, 3}
    /\ Len(reply.entries) = 4

\* C6: on one table, readdir(id, k) emits exactly the entries at 0-based
\* positions >= k of what readdir(id, 0) emits, each with cursor position + 1;
\* an offset at or past the end yields an empty successful reply.
C6_Pagination ==
    (pc = "replied" /\ req.op = "readdir" /\ ValidIno) =>
        LET all == emitted(dir_entries(table, req.ino), 0)
            k == req.offset
        IN  /\ reply.type = "directory"
            /\ Len(reply.entries) = Max(Len(all) - k, 0)
            /\ \A j \in 1..Len(reply.entries) :
                  /\ reply.entries[j] = all[k + j]
                  /\ reply.entries[j].offset = (k + j - 1) + 1

\* readdir(id of a, 2) on ".", "..", x, y has replied with exactly x, y
C6_Witness ==
    /\ pc = "replied"
    /\ req.op = "readdir"
    /\ Listed = <<LineAX, LineAY>>
    /\ req.ino = 2
    /\ req.offset = 2
    /\ reply.type = "directory"
    /\ [k \in 1..Len(reply.entries) |-> reply.entries[k].name] = <<<<"x">>, <<"y">>>>

----------------------------------------------------------------------------
(* C7: getattr *)

\* every invocation of the list command by the request printed the same lines
ListingUnchanged == \A i \in 1..Len(listRuns) : listRuns[i].lines = Listed

\* C7: with an unchanged listing whose table has n records, getattr(id)
\* replies with an attribute record of ino id and the kind of the record at
\* table position id for every id in 1..n, and with "no such entry" for
\* every id > n; getattr(1) reports kind Directory.
C7_Getattr ==
    (req.op = "getattr" /\ Spawned /\ ListingUnchanged) =>
        LET n == Len(table) IN
        /\ req.ino \in 1..n =>
              /\ pc = "replied"
              /\ reply = ReplyAttr(TTL, attr(req.ino, table[req.ino].kind))
        /\ req.ino > n =>
              /\ pc = "replied"
              /\ reply = ReplyError(ENOENT)
        /\ req.ino = 1 => reply.attr.kind = "Directory"

\* getattr of the last id of a table with a synthesized directory has
\* replied with the kind RegularFile
C7_Witness ==
    /\ pc = "replied"
    /\ req.op = "getattr"
    /\ ListingUnchanged
    /\ Len(table) = 3
    /\ req.ino = 3
    /\ table[2].kind = "Directory"
    /\ reply.type = "attr"
    /\ reply.attr.kind = "RegularFile"

----------------------------------------------------------------------------
(* C8: one table build per request *)

\* C8: a request that was answered ran the list command exactly once, and
\* the transform command exactly once when it is a read that replied with
\* data; the record a getattr reply is built from is the record of the
\* table its range check was made on.
C8_OneBuildPerRequest ==
    (pc = "replied" /\ Spawned) =>
        /\ Len(listRuns) = 1
        /\ reply.type = "data" => Len(transRuns) = 1
        /\ (req.op = "getattr" /\ reply.type = "attr") =>
              reply.attr.kind = table[req.ino].kind

----------------------------------------------------------------------------
(* C9: unknown ids and names *)

\* the request names an inode id, or a (parent, name) pair, that the table
\* built for it does not hold
NamesAbsent ==
    /\ Built
    /\ IF req.op = "lookup"
       THEN ~ \E j \in 1..Len(table) :
                 /\ table[j].parent_inode = req.parent
                 /\ file_name(table[j].path) = {req.name}
       ELSE req.ino \notin 1..Len(table)

\* C9: while the commands can be spawned, a request naming an id outside
\* 1..table size (id 0 included) or an absent (parent, name) pair is
\* answered with "no such entry" and the handler returns.
C9_AbsentIsNoEntry ==
    (pc # "mounted" /\ Spawned /\ NamesAbsent) =>
        /\ pc = "replied"
        /\ reply = ReplyError(ENOENT)

----------------------------------------------------------------------------
(* C10: commands that exit with a non-zero status *)

\* a command the request ran exited with a non-zero status
SomeRunFailed ==
    \/ \E i \in 1..Len(listRuns) : listRuns[i].status = "exit1"
    \/ \E i \in 1..Len(transRuns) : transRuns[i].status = "exit1"

\* C10: when the list command, or the transform command of a read, exits
\* with a non-zero status, the request fails fatally and no reply is built.
C10_FailedCommandIsFatal ==
    SomeRunFailed => reply.type \notin {"entry", "attr", "directory", "data"}

----------------------------------------------------------------------------
(* C11: one entry per (parent_inode, file name) *)

\* the paths handed to insert_path by the loop of items(), in order
ListedPaths ==
    LET lines == SelectSeq(Listed, LAMBDA l : l # <<>>)
    IN  [i \in 1..Len(lines) |-> PathNew(lines[i])]

\* the non-empty lines are pairwise distinct strings
DistinctLines ==
    \A i, j \in 1..Len(Listed) :
        (i < j /\ Listed[i] # <<>>) => Listed[i] # Listed[j]

\* C11: when the non-empty lines of the listing are pairwise distinct, no
\* two entries of the table share the pair (parent_inode, final path
\* segment), in whatever order the lines come (stated here for the listings
\* of plain relative paths, which hold the case ["a/b", "a"]).
C11_UniqueNameInParent ==
    (pc = "replied" /\ Built /\ DistinctLines
        /\ \A i \in 1..Len(Listed) : Plain(Listed[i])) =>
        \A i, j \in 1..Len(table) :
            (i < j /\ table[i].parent_inode = table[j].parent_inode)
                => file_name(table[i].path) # file_name(table[j].path)

----------------------------------------------------------------------------
(* C12: parents come first *)

\* the number of parent_inode steps from id k to id 1, following at most
\* fuel steps (-1 when id 1 is not reached)
RECURSIVE StepsToRoot(_, _, _)
StepsToRoot(t, k, fuel) ==
    IF k = 1 THEN 0
    ELSE IF fuel = 0 \/ k \notin 2..Len(t) THEN -1
    ELSE LET rest == StepsToRoot(t, t[k].parent_inode, fuel - 1)
         IN  IF rest = -1 THEN -1 ELSE rest + 1

\* C12: every entry with id k >= 2 has 1 <= parent_inode < k, so its parent
\* is the root or an entry inserted before it, and following parent_inode
\* from any entry reaches id 1.
C12_ParentBeforeChild ==
    Built =>
        \A k \in 2..Len(table) :
            /\ 1 <= table[k].parent_inode
            /\ table[k].parent_inode < k
            /\ StepsToRoot(table, k, Len(table)) \in 1..(k - 1)

\* a table where the entry a/b/c is three parent steps away from the root
C12_Witness ==
    /\ pc = "replied"
    /\ Built
    /\ Len(table) = 4
    /\ table[4].parent_inode = 3
    /\ table[3].parent_inode = 2
    /\ StepsToRoot(table, 4, 4) = 3

----------------------------------------------------------------------------
(* C13: kinds *)

\* the paths the listing emits, and their proper ancestors (the non-empty
\* proper prefixes)
ListedPathSet == {ListedPaths[i] : i \in 1..Len(ListedPaths)}
AncestorPathSet ==
    UNION {{Prefix(p, k) : k \in 1..(Len(p) - 1)} : p \in ListedPathSet}

\* C13: every entry whose path is emitted by the listing has kind
\* RegularFile; the root and every entry whose path is an ancestor of a
\* listed path that the listing does not emit itself have kind Directory.
C13_KindByOrigin ==
    (pc = "replied" /\ Built) =>
        /\ table[1].kind = "Directory"
        /\ \A k \in 2..Len(table) :
              /\ table[k].path \in ListedPathSet => table[k].kind = "RegularFile"
              /\ table[k].path \in AncestorPathSet \ ListedPathSet
                    => table[k].kind = "Directory"

----------------------------------------------------------------------------
(* C15: lookup *)

\* the ids of the entries with the parent and the final path segment that
\* the lookup request names
LookupMatches ==
    {j \in 1..Len(table) :
        /\ table[j].parent_inode = req.parent
        /\ file_name(table[j].path) = {req.name}}

\* C15: lookup(parent_id, name) replies with the smallest id whose entry has
\* that parent_inode and that final path segment, and with its kind, and
\* replies "no such entry" exactly when no entry has both (stated here for
\* the parent ids of the table, 1..table size).
C15_LookupFirstMatch ==
    (req.op = "lookup" /\ Spawned /\ Built /\ req.parent \in 1..Len(table)) =>
        /\ pc = "replied"
        /\ LookupMatches = {} => reply = ReplyError(ENOENT)
        /\ LookupMatches # {} =>
              LET id == CHOOSE i \in LookupMatches : \A j \in LookupMatches : i <= j
              IN  reply = ReplyEntry(TTL, attr(id, table[id].kind), 0)

----------------------------------------------------------------------------
(* C16: only directories have children *)

\* C16: the parent_inode of every non-root entry is 1 or the id of an entry
\* whose kind is Directory; no RegularFile entry has children, whatever the
\* listing (including a file listed before a path below it).
C16_ParentIsDirectory ==
    (pc = "replied" /\ Built) =>
        \A k \in 2..Len(table) :
            \/ table[k].parent_inode = 1
            \/ /\ table[k].parent_inode \in 1..Len(table)
               /\ table[table[k].parent_inode].kind = "Directory"

----------------------------------------------------------------------------
(* C17: insert_path is append-only *)

\* the calls of insert_path that one call from the loop of items() makes:
\* the call itself and, while the parent is not in the table, the call on
\* the parent as a Directory; all of them get the same table, since an
\* entry is pushed only after the inner call has returned
RECURSIVE insert_path_calls(_, _, _)
insert_path_calls(inode_map, path, kind) ==
    LET par == parent(path)
    IN  {<<path, kind>>} \cup
        IF par = {} THEN {}
        ELSE LET p == CHOOSE q \in par : TRUE
             IN  IF find(inode_map, p) # {} THEN {}
                 ELSE insert_path_calls(inode_map, p, "Directory")

\* the table before the k-th path of the listing is inserted
TableBefore(k) ==
    insert_all(<<Inode(<<>>, "Directory", 0)>>, SubSeq(ListedPaths, 1, k - 1))

IsRootPath(path) == path = <<RootDir>> \/ path = <<CurDir>>

\* C17: insert_path is append-only. Every call leaves the entries already in
\* the table unchanged and in place; a call on a root path ("/" or ".")
\* appends nothing and returns 1; every other call appends at least one
\* entry and returns the id of the last entry appended, the new table length.
C17_InsertPathAppendOnly ==
    Built =>
        \A k \in 1..Len(ListedPaths) :
            LET t0 == TableBefore(k)
            IN  \A c \in insert_path_calls(t0, ListedPaths[k], "RegularFile") :
                    LET r == insert_path(t0, c[1], c[2])
                    IN  /\ Len(r.map) >= Len(t0)
                        /\ SubSeq(r.map, 1, Len(t0)) = t0
                        /\ IsRootPath(c[1]) => (r.map = t0 /\ r.id = 1)
                        /\ ~IsRootPath(c[1]) =>
                              /\ Len(r.map) > Len(t0)
                              /\ r.id = Len(r.map)
                              /\ r.map[r.id].path = c[1]

\* a table built from a listing with a path under "/" (its insertion calls
\* insert_path on the root path) after a path whose two ancestors had to be
\* made, so that the second call starts from a table of four entries
C17_Witness ==
    /\ pc = "replied" /\ Built
    /\ Len(ListedPaths) = 2
    /\ ListedPaths[1] = PathNew(LineABC)
    /\ <<<<RootDir>>, "Directory">>
           \in insert_path_calls(TableBefore(2), ListedPaths[2], "RegularFile")
    /\ Len(TableBefore(2)) = 4
    /\ Len(table) = 5

====
